---- MODULE Spec2Model ----
(***************************************************************************)
(* VisionCaster (src/main.py): a button-driven smart camera.  One thread   *)
(* polls a GPIO line; a short press runs the blocking pipeline             *)
(* capture -> caption -> log -> present.  The clock is counted in tenths   *)
(* of a second (one tick = 0.1 s = DEBOUNCE_TIME).                         *)
(***************************************************************************)
EXTENDS Integers, Sequences, FiniteSets, TLC

VARIABLES
    pc,                 \* position of the single thread of control
    now,                \* wall clock, in ticks of 0.1 s
    prev_button_state,  \* main.py:80, assigned at main.py:215
    button_state,       \* the level sampled by the current poll (main.py:188)
    press_time_start,   \* main.py:82 / 193
    press_time_end,     \* main.py:83 / 195
    current_time,       \* main.py:199, local of the running pipeline
    filename,           \* main.py:200
    caption,            \* main.py:208
    data,               \* save_user_interaction's in-memory list (main.py:168-175)
    lcd,                \* text on the character display ("" = cleared)
    audio,              \* the last clip or sentence played to completion
    speechFile,         \* speech.mp3 exists on disk
    images,             \* photo files on disk (by second-resolution name)
    historyFile,        \* data/history.json: [text, ok]
    gpioReleased,       \* GPIO.cleanup() has run
    modelLoads,         \* number of from_pretrained model loads performed
    exitShownAt,        \* clock when "Exiting..." was put on the display
    crashedAt,          \* stage at which an uncaught exception ended the process
    phys,               \* the physical button: up, bounceDown, down, bounceUp
    bounceSeen,         \* a poll has sampled the line in the current bounce window
    pressedEvents,      \* Pressed edges detected since the last physical press began
    releasedEvents,     \* Released edges detected since the last physical press began
    runsSincePress,     \* pipeline runs started since the last physical press began
    pressKind,          \* where the last physical press began/ended (idle, beforeWarmup, inPipeline, hidden, heldOver, heldOverLong)
    pipelineRuns,       \* pipeline runs started by this process
    captionFault,       \* what went wrong in the caption stage of the last run
    log0,               \* the records history.json held when the process started
    persisted,          \* the records last read back from an intact history.json
    stages              \* the stages the current/last pipeline run has performed

vars == <<pc, now, prev_button_state, button_state, press_time_start,
          press_time_end, current_time, filename, caption, data, lcd, audio,
          speechFile, images, historyFile, gpioReleased, modelLoads,
          exitShownAt, crashedAt, phys, bounceSeen, pressedEvents,
          releasedEvents, runsSincePress, pressKind, pipelineRuns,
          captionFault, log0, persisted, stages>>

---------------------------------------------------------------------------
(* Program constants, in ticks of 0.1 s.                                   *)

SHORT_PRESS_TIME == 5

DEBOUNCE_TIME == 1

CameraWarmup == 10

ExitHold == 50

TicksPerSecond == 10

(* Bounds of the model.                                                    *)

MaxTime == 31

MaxBoot == 5

MaxCaptureLag == 0

---------------------------------------------------------------------------
(* Values.                                                                 *)

HIGH == "HIGH"

LOW == "LOW"

ErrorCaption == "Error processing the image."

ModelCaption == "a photo of a room"

\* mutant: a wall clock that may read less than SHORT_PRESS_TIME at startup
BootTimesFromZero == 0..MaxBoot

BootTimes == SHORT_PRESS_TIME..MaxBoot

\* strftime('%Y%m%d_%H%M%S'): the timestamp cut to whole seconds
PhotoName(t) == t \div TicksPerSecond

\* dict(createdAt = current_time.isoformat(), caption, filename): isoformat keeps
\* the full resolution of the instant, so the tick itself stands for the string
NewRecord(t, c, f) == [createdAt |-> t, caption |-> c, filename |-> f]

\* a record left by an earlier process: its press was released at least a
\* camera warm-up before this process could start
OldStamp == SHORT_PRESS_TIME - CameraWarmup

OldRecord == NewRecord(OldStamp, ModelCaption, PhotoName(OldStamp))

\* json.dump of the list: the objects' values in key order, one after another
JsonDump(d) ==
    [i \in 1..(3 * Len(d)) |->
        LET r == d[((i - 1) \div 3) + 1]
            k == (i - 1) % 3
        IN  IF k = 0 THEN r.createdAt ELSE IF k = 1 THEN r.caption ELSE r.filename]

\* json.load: the complete objects of the text, in order
JsonLoad(t) ==
    [j \in 1..(Len(t) \div 3) |->
        [createdAt |-> t[3 * j - 2], caption |-> t[3 * j - 1], filename |-> t[3 * j]]]

\* mutants of data.append: the file rewritten with the new record alone, and
\* the new record put first
AppendRecordOnly(d, r) == <<r>>

AppendRecordFront(d, r) == <<r>> \o d

\* data.append(dict(...)), main.py:171-175
AppendRecord(d, r) == Append(d, r)

IsPrefix(s, t) == Len(s) <= Len(t) /\ SubSeq(t, 1, Len(s)) = s

---------------------------------------------------------------------------
(* The debouncer's comparisons, main.py:192-198 and 215.                   *)

Edge(prev, cur) ==
    IF prev = HIGH /\ cur = LOW THEN "Pressed"
    ELSE IF prev = LOW /\ cur = HIGH THEN "Released"
    ELSE "None"

\* mutants of the threshold test: <= for <, and no test at all
IsShortPressInclusive(duration) == duration <= SHORT_PRESS_TIME

IsShortPressAlways(duration) == TRUE

IsShortPress(duration) == duration < SHORT_PRESS_TIME

\* mutant of line 215: the short-press branch leaving main() before it
PrevAfterPipelineSkipped(prev, sampled) == prev

\* prev_button_state = button_state, main.py:215, at the end of an iteration
\* that ran no pipeline
NextPrev(prev, sampled) == sampled

\* the same assignment reached through the short-press branch
PrevAfterPipeline(prev, sampled) == sampled

\* the levels GPIO.input can return: pull-up, active low, either while bouncing
LineLevels(p) ==
    IF p = "up" THEN {HIGH} ELSE IF p = "down" THEN {LOW} ELSE {HIGH, LOW}

Bouncing == phys \in {"bounceDown", "bounceUp"}

PipelineStages ==
    {"smile", "capture", "shutter", "ttsProcessing", "playProcessing",
     "showProcessing", "analyse", "saveLoad", "saveOpen", "saveDump",
     "showCaption", "ttsCaption", "playCaption", "clear"}

InPipeline == pc \in PipelineStages

ExitStages == {"cleanup", "exitShow", "exitHold", "exited"}

\* the process is inside the try block of main.py:220-226
Running == pc \in {"startup", "poll"} \cup PipelineStages

\* the longest a pipeline run takes on the model's clock
PipelineTimeMax == CameraWarmup + MaxCaptureLag

---------------------------------------------------------------------------
(* Initial state: module level of main.py, lines 41-83.                    *)

InitialFiles ==
    { [text |-> <<>>, ok |-> TRUE],
      [text |-> JsonDump(<<OldRecord>>), ok |-> TRUE],
      [text |-> <<>>, ok |-> FALSE] }

Init ==
    /\ pc = "startup"
    /\ now \in BootTimes
    /\ prev_button_state = LOW
    /\ button_state = "None"
    /\ press_time_start = 0
    /\ press_time_end = 0
    /\ current_time = 0
    /\ filename = 0
    /\ caption = ""
    /\ data = <<>>
    /\ lcd = ""
    /\ audio = "none"
    /\ speechFile = FALSE
    /\ historyFile \in InitialFiles
    /\ images = {r.filename : r \in {JsonLoad(historyFile.text)[i] : i \in 1..(Len(historyFile.text) \div 3)}}
    /\ gpioReleased = FALSE
    /\ modelLoads = 0
    /\ exitShownAt = 0
    /\ crashedAt = "none"
    /\ phys \in {"up", "down"}
    /\ bounceSeen = FALSE
    /\ pressedEvents = 0
    /\ releasedEvents = 0
    /\ runsSincePress = 0
    /\ pressKind = "idle"
    /\ pipelineRuns = 0
    /\ captionFault = "none"
    /\ log0 = JsonLoad(historyFile.text)
    /\ persisted = JsonLoad(historyFile.text)
    /\ stages = <<>>

progVars == <<prev_button_state, button_state, press_time_start, press_time_end,
              current_time, filename, caption, data>>

worldVars == <<lcd, audio, speechFile, images, historyFile, gpioReleased, modelLoads>>

envVars == <<phys, bounceSeen>>

pressGhost == <<pressedEvents, releasedEvents, runsSincePress, pressKind>>

runGhost == <<pipelineRuns, captionFault, log0, persisted, exitShownAt, crashedAt>>

---------------------------------------------------------------------------
(* The physical button.  Contact bounce is confined to a window shorter    *)
(* than one debounce interval, so at most one poll samples the line while  *)
(* it bounces (bounceSeen).                                                *)

PressButton ==
    /\ Running
    /\ phys = "up"
    /\ phys' = "bounceDown"
    /\ bounceSeen' = FALSE
    /\ pressedEvents' = 0
    /\ releasedEvents' = 0
    /\ runsSincePress' = 0
    /\ pressKind' = (IF pc \in {"smile", "capture"} THEN "beforeWarmup"
                     ELSE IF InPipeline THEN "inPipeline" ELSE "idle")
    /\ UNCHANGED <<pc, now, progVars, worldVars, runGhost, stages>>

SettleDown ==
    /\ Running
    /\ phys = "bounceDown"
    /\ phys' = "down"
    /\ UNCHANGED <<pc, now, progVars, worldVars, runGhost, stages, bounceSeen, pressGhost>>

ReleaseButton ==
    /\ Running
    /\ phys = "down"
    /\ phys' = "bounceUp"
    /\ bounceSeen' = FALSE
    /\ UNCHANGED <<pc, now, progVars, worldVars, runGhost, stages, pressGhost>>

SettleUp ==
    /\ Running
    /\ phys = "bounceUp"
    /\ phys' = "up"
    /\ pressKind' = (IF pressKind \in {"beforeWarmup", "inPipeline"} /\ InPipeline
                     THEN "hidden" ELSE pressKind)
    /\ UNCHANGED <<pc, now, progVars, worldVars, runGhost, stages, bounceSeen,
                   pressedEvents, releasedEvents, runsSincePress>>

---------------------------------------------------------------------------
(* Startup, main.py:221-223.                                               *)

Startup ==
    /\ pc = "startup"
    /\ lcd' = "Ready..."
    /\ audio' = "start"
    /\ pc' = "poll"
    /\ UNCHANGED <<now, progVars, speechFile, images, historyFile, gpioReleased,
                   modelLoads, envVars, pressGhost, runGhost, stages>>

(* One iteration of main() that does not run the pipeline, or the part of  *)
(* an iteration up to the pipeline's first stage: main.py:188-200, 215.    *)

Poll ==
    /\ pc = "poll"
    /\ now + DEBOUNCE_TIME + PipelineTimeMax <= MaxTime
    /\ ~(Bouncing /\ bounceSeen)
    /\ \E level \in LineLevels(phys) :
        LET t == now + DEBOUNCE_TIME
            ev == Edge(prev_button_state, level)
            short == ev = "Released" /\ IsShortPress(t - press_time_start)
        IN  /\ button_state' = level
            /\ now' = t
            /\ bounceSeen' = (Bouncing \/ bounceSeen)
            /\ press_time_start' = (IF ev = "Pressed" THEN t ELSE press_time_start)
            /\ press_time_end' = (IF ev = "Released" THEN t ELSE press_time_end)
            /\ pressedEvents' = (IF ev = "Pressed" THEN pressedEvents + 1 ELSE pressedEvents)
            /\ releasedEvents' = (IF ev = "Released" THEN releasedEvents + 1 ELSE releasedEvents)
            /\ IF short
               THEN /\ current_time' = t
                    /\ filename' = PhotoName(t)
                    /\ pc' = "smile"
                    /\ pipelineRuns' = pipelineRuns + 1
                    /\ runsSincePress' = runsSincePress + 1
                    /\ captionFault' = "none"
                    /\ stages' = <<>>
                    /\ UNCHANGED prev_button_state
               ELSE /\ prev_button_state' = NextPrev(prev_button_state, level)
                    /\ pc' = "poll"
                    /\ UNCHANGED <<current_time, filename, pipelineRuns,
                                   runsSincePress, captionFault, stages>>
    /\ UNCHANGED <<caption, data, worldVars, phys, pressKind, log0, persisted,
                   exitShownAt, crashedAt>>

---------------------------------------------------------------------------
(* The pipeline, main.py:202-213, one action per blocking call.            *)

\* what a stage leaves alone besides the things it names
StageFrame ==
    UNCHANGED <<prev_button_state, button_state, press_time_start, press_time_end,
                current_time, filename, gpioReleased, envVars, pressedEvents,
                releasedEvents, runsSincePress, pipelineRuns, log0, exitShownAt,
                crashedAt>>

\* display_message(text) with sleep_time = 0, main.py:157-158
ShowSmile ==
    /\ pc = "smile"
    /\ lcd' = "Smile for the camera!"
    /\ pc' = "capture"
    /\ stages' = Append(stages, "smile")
    /\ StageFrame
    /\ UNCHANGED <<now, caption, data, audio, speechFile, images, historyFile,
                   modelLoads, pressKind, captionFault, persisted>>

\* mutant: the capture without the camera warm-up sleep
CaptureImageNoWarmup ==
    /\ pc = "capture"
    /\ now' = now
    /\ images' = images \cup {filename}
    /\ pc' = "shutter"
    /\ stages' = Append(stages, "capture")
    /\ StageFrame
    /\ UNCHANGED <<caption, data, lcd, audio, speechFile, historyFile,
                   modelLoads, pressKind, captionFault, persisted>>

\* capture_image(filename), main.py:90-102
CaptureImage ==
    /\ pc = "capture"
    /\ \E lag \in 0..MaxCaptureLag : now' = now + CameraWarmup + lag
    /\ images' = images \cup {filename}
    /\ pc' = "shutter"
    /\ stages' = Append(stages, "capture")
    /\ StageFrame
    /\ UNCHANGED <<caption, data, lcd, audio, speechFile, historyFile,
                   modelLoads, pressKind, captionFault, persisted>>

\* convert_text_to_speech(None, "camera"), main.py:128-135
PlayShutter ==
    /\ pc = "shutter"
    /\ audio' = "camera"
    /\ pc' = "ttsProcessing"
    /\ stages' = Append(stages, "shutter")
    /\ StageFrame
    /\ UNCHANGED <<now, caption, data, lcd, speechFile, images, historyFile,
                   modelLoads, pressKind, captionFault, persisted>>

\* gTTS(...).save("speech.mp3"), main.py:139-140
Synthesize(at, next) ==
    /\ pc = at
    /\ speechFile' = TRUE
    /\ pc' = next
    /\ StageFrame
    /\ UNCHANGED <<now, caption, data, lcd, audio, images, historyFile,
                   modelLoads, pressKind, captionFault, persisted, stages>>

\* play speech.mp3 to completion, then os.remove, main.py:143-151
PlaySpeech(at, next, text, stage) ==
    /\ pc = at
    /\ audio' = text
    /\ speechFile' = FALSE
    /\ pc' = next
    /\ stages' = Append(stages, stage)
    /\ StageFrame
    /\ UNCHANGED <<now, caption, data, lcd, images, historyFile,
                   modelLoads, pressKind, captionFault, persisted>>

SynthProcessing == Synthesize("ttsProcessing", "playProcessing")

PlayProcessing ==
    PlaySpeech("playProcessing", "showProcessing", "Processing image...", "sayProcessing")

\* mutant: the caption call left out, the record stage entered straight away
ShowProcessingSkipsCaption ==
    /\ pc = "showProcessing"
    /\ lcd' = "Processing image..."
    /\ pc' = "saveLoad"
    /\ stages' = Append(stages, "showProcessing")
    /\ StageFrame
    /\ UNCHANGED <<now, caption, data, audio, speechFile, images, historyFile,
                   modelLoads, pressKind, captionFault, persisted>>

ShowProcessing ==
    /\ pc = "showProcessing"
    /\ lcd' = "Processing image..."
    /\ pc' = "analyse"
    /\ stages' = Append(stages, "showProcessing")
    /\ StageFrame
    /\ UNCHANGED <<now, caption, data, audio, speechFile, images, historyFile,
                   modelLoads, pressKind, captionFault, persisted>>

\* what analyse_image returns: the decoded caption, or the string of the
\* except branch when opening or processing the image raises, main.py:112-123
CaptionResult(failed) == IF failed THEN ErrorCaption ELSE ModelCaption

\* analyse_image(filename) returning, main.py:106-123: the model is loaded
\* (109-110), then the image is opened and captioned inside the try
AnalyseImage ==
    /\ pc = "analyse"
    /\ modelLoads' = modelLoads + 1
    /\ \E failed \in BOOLEAN :
        /\ caption' = CaptionResult(failed)
        /\ captionFault' = (IF failed THEN "image" ELSE "none")
    /\ pc' = "saveLoad"
    /\ stages' = Append(stages, "caption")
    /\ StageFrame
    /\ UNCHANGED <<now, data, lcd, audio, speechFile, images, historyFile,
                   pressKind, persisted>>

\* from_pretrained raising, main.py:109-110: outside the try, so the
\* exception leaves analyse_image and main and ends the process
ModelLoadFault ==
    /\ pc = "analyse"
    /\ captionFault' = "load"
    /\ pc' = "crashed"
    /\ crashedAt' = "analyse"
    /\ UNCHANGED <<now, progVars, worldVars, envVars, pressGhost, pipelineRuns,
                   log0, persisted, exitShownAt, stages>>

\* json.load of history.json and data.append, main.py:167-175
SaveLoad ==
    /\ pc = "saveLoad"
    /\ historyFile.ok
    /\ data' = AppendRecord(JsonLoad(historyFile.text),
                            NewRecord(current_time, caption, filename))
    /\ pc' = "saveOpen"
    /\ StageFrame
    /\ UNCHANGED <<now, caption, lcd, audio, speechFile, images, historyFile,
                   modelLoads, pressKind, captionFault, persisted, stages>>

\* mutant: an unreadable history.json taken for an empty log
LogReadRecovered ==
    /\ pc = "saveLoad"
    /\ ~historyFile.ok
    /\ data' = AppendRecord(<<>>, NewRecord(current_time, caption, filename))
    /\ pc' = "saveOpen"
    /\ StageFrame
    /\ UNCHANGED <<now, caption, lcd, audio, speechFile, images, historyFile,
                   modelLoads, pressKind, captionFault, persisted, stages>>

\* history.json missing or not JSON: open/json.load raise, main.py:167-168
LogReadFault ==
    /\ pc = "saveLoad"
    /\ ~historyFile.ok
    /\ pc' = "crashed"
    /\ crashedAt' = "saveLoad"
    /\ UNCHANGED <<now, progVars, worldVars, envVars, pressGhost, pipelineRuns,
                   captionFault, log0, persisted, exitShownAt, stages>>

\* open(history.json, "w") truncates the file, main.py:178
SaveOpen ==
    /\ pc = "saveOpen"
    /\ historyFile' = [text |-> <<>>, ok |-> FALSE]
    /\ pc' = "saveDump"
    /\ StageFrame
    /\ UNCHANGED <<now, caption, data, lcd, audio, speechFile, images,
                   modelLoads, pressKind, captionFault, persisted, stages>>

\* json.dump(data, file) writes the whole list, main.py:178
SaveDump ==
    /\ pc = "saveDump"
    /\ historyFile' = [text |-> JsonDump(data), ok |-> TRUE]
    /\ persisted' = JsonLoad(JsonDump(data))
    /\ pc' = "showCaption"
    /\ stages' = Append(stages, "save")
    /\ StageFrame
    /\ UNCHANGED <<now, caption, data, lcd, audio, speechFile, images,
                   modelLoads, pressKind, captionFault>>

ShowCaption ==
    /\ pc = "showCaption"
    /\ lcd' = caption
    /\ pc' = "ttsCaption"
    /\ stages' = Append(stages, "showCaption")
    /\ StageFrame
    /\ UNCHANGED <<now, caption, data, audio, speechFile, images, historyFile,
                   modelLoads, pressKind, captionFault, persisted>>

SynthCaption == Synthesize("ttsCaption", "playCaption")

PlayCaption == PlaySpeech("playCaption", "clear", caption, "sayCaption")

\* mutant: the final lcd.clear() left out
ReturnWithoutClear ==
    /\ pc = "clear"
    /\ prev_button_state' = PrevAfterPipeline(prev_button_state, button_state)
    /\ pc' = "poll"
    /\ stages' = Append(stages, "clear")
    /\ pressKind' = (IF pressKind = "inPipeline" THEN "heldOver"
                     ELSE IF pressKind = "beforeWarmup" THEN "heldOverLong"
                     ELSE pressKind)
    /\ UNCHANGED <<now, button_state, press_time_start, press_time_end,
                   current_time, filename, caption, data, lcd, audio, speechFile,
                   images, historyFile, gpioReleased, modelLoads, envVars,
                   pressedEvents, releasedEvents, runsSincePress, runGhost>>

\* lcd.clear() and the end of the iteration, main.py:213 and 215
ClearAndReturn ==
    /\ pc = "clear"
    /\ lcd' = ""
    /\ prev_button_state' = PrevAfterPipeline(prev_button_state, button_state)
    /\ pc' = "poll"
    /\ stages' = Append(stages, "clear")
    /\ pressKind' = (IF pressKind = "inPipeline" THEN "heldOver"
                     ELSE IF pressKind = "beforeWarmup" THEN "heldOverLong"
                     ELSE pressKind)
    /\ UNCHANGED <<now, button_state, press_time_start, press_time_end,
                   current_time, filename, caption, data, audio, speechFile,
                   images, historyFile, gpioReleased, modelLoads, envVars,
                   pressedEvents, releasedEvents, runsSincePress, runGhost>>

---------------------------------------------------------------------------
(* Uncaught exceptions and the operator interrupt.                         *)

\* the stages that drive the camera, the display or the audio device
HardwareStages ==
    {"smile", "capture", "shutter", "ttsProcessing", "playProcessing",
     "showProcessing", "showCaption", "ttsCaption", "playCaption", "clear"}

\* mutant: the handler catching every exception, so a device fault runs the
\* farewell sequence
HardwareFaultCaught ==
    /\ pc \in HardwareStages
    /\ pc' = "cleanup"
    /\ crashedAt' = pc
    /\ UNCHANGED <<now, progVars, worldVars, envVars, pressGhost, pipelineRuns,
                   captionFault, log0, persisted, exitShownAt, stages>>

\* a camera, display or audio exception: nothing catches it (main.py:220-228
\* catches KeyboardInterrupt only), the process ends where it stands
HardwareFault ==
    /\ pc \in HardwareStages
    /\ pc' = "crashed"
    /\ crashedAt' = pc
    /\ UNCHANGED <<now, progVars, worldVars, envVars, pressGhost, pipelineRuns,
                   captionFault, log0, persisted, exitShownAt, stages>>

\* the bytes an interrupted json.dump leaves in the truncated file: the
\* chunks written so far, flushed when the file object is dropped
PartialWrites(d) == {SubSeq(JsonDump(d), 1, k) : k \in 0..(Len(JsonDump(d)) - 1)}

\* mutant: history.json opened for writing before the list is loaded, so an
\* interrupt anywhere in the record stage finds it truncated
InterruptTruncatesEarly ==
    /\ pc \in {"startup", "poll"} \cup PipelineStages
    /\ pc' = "cleanup"
    /\ IF pc \in {"saveLoad", "saveOpen", "saveDump"}
       THEN historyFile' = [text |-> <<>>, ok |-> FALSE]
       ELSE UNCHANGED historyFile
    /\ UNCHANGED <<now, progVars, lcd, audio, speechFile, images, gpioReleased,
                   modelLoads, envVars, pressGhost, runGhost, stages>>

\* KeyboardInterrupt raised inside the try block, main.py:220-228
Interrupt ==
    /\ pc \in {"startup", "poll"} \cup PipelineStages
    /\ pc' = "cleanup"
    /\ IF pc = "saveDump"
       THEN \E t \in PartialWrites(data) : historyFile' = [text |-> t, ok |-> FALSE]
       ELSE UNCHANGED historyFile
    /\ UNCHANGED <<now, progVars, lcd, audio, speechFile, images, gpioReleased,
                   modelLoads, envVars, pressGhost, runGhost, stages>>

\* GPIO.cleanup(), main.py:229
GpioCleanup ==
    /\ pc = "cleanup"
    /\ gpioReleased' = TRUE
    /\ pc' = "exitShow"
    /\ UNCHANGED <<now, progVars, lcd, audio, speechFile, images, historyFile,
                   modelLoads, envVars, pressGhost, runGhost, stages>>

\* display_message("Exiting...", 5): clear and write, main.py:157-158
ShowExiting ==
    /\ pc = "exitShow"
    /\ lcd' = "Exiting..."
    /\ exitShownAt' = now
    /\ pc' = "exitHold"
    /\ UNCHANGED <<now, progVars, audio, speechFile, images, historyFile,
                   gpioReleased, modelLoads, envVars, pressGhost, pipelineRuns,
                   captionFault, log0, persisted, crashedAt, stages>>

\* mutant: "Exiting..." written with no hold time, so neither slept on nor cleared
HoldSkipped ==
    /\ pc = "exitHold"
    /\ pc' = "exited"
    /\ UNCHANGED <<now, progVars, worldVars, envVars, pressGhost, runGhost, stages>>

\* sleep(5), lcd.clear(), and the end of the script, main.py:160-162
HoldAndClear ==
    /\ pc = "exitHold"
    /\ now' = now + ExitHold
    /\ lcd' = ""
    /\ pc' = "exited"
    /\ UNCHANGED <<progVars, audio, speechFile, images, historyFile,
                   gpioReleased, modelLoads, envVars, pressGhost, runGhost, stages>>

---------------------------------------------------------------------------

Environment == PressButton \/ SettleDown \/ ReleaseButton \/ SettleUp

Pipeline ==
    \/ ShowSmile \/ CaptureImage \/ PlayShutter \/ SynthProcessing
    \/ PlayProcessing \/ ShowProcessing \/ AnalyseImage \/ SaveLoad
    \/ SaveOpen \/ SaveDump \/ ShowCaption \/ SynthCaption \/ PlayCaption
    \/ ClearAndReturn

Shutdown == GpioCleanup \/ ShowExiting \/ HoldAndClear

Faults == ModelLoadFault \/ LogReadFault \/ HardwareFault

Program == Startup \/ Poll \/ Pipeline \/ Shutdown

Next == Program \/ Faults \/ Interrupt \/ Environment

Spec == Init /\ [][Next]_vars

\* the single thread keeps running: a program step that can be taken is taken
FairSpec == Spec /\ WF_vars(Program)

\* The program with every collaborator call returning: history.json readable,
\* no device or model exception, no operator interrupt.
LiveInit == Init /\ historyFile.ok

LiveProgram == Startup \/ Poll \/ Pipeline

LiveNext == LiveProgram \/ Environment

LiveSpec == LiveInit /\ [][LiveNext]_vars /\ WF_vars(LiveProgram)

---------------------------------------------------------------------------
(* Properties.                                                             *)

Records == JsonLoad(historyFile.text)

Chronological(recs) ==
    \A i \in 1..(Len(recs) - 1) : recs[i].createdAt <= recs[i + 1].createdAt

\* a poll of the line is the only step taken from "poll" that moves the clock
PollStep == pc = "poll" /\ now' = now + DEBOUNCE_TIME

AfterSave == {"showCaption", "ttsCaption", "playCaption", "clear"}

\* C1: between pipeline runs, the log holds the records it held at startup
\* followed by exactly one record per pipeline run started, the last one
\* stamped with the latest release, in non-decreasing createdAt order; inside
\* a run the record of that run is missing before the record stage and
\* present, once, after it.
C1_OneRecordPerPress ==
    /\ (pc = "poll" /\ pipelineRuns > 0) =>
          /\ historyFile.ok
          /\ Len(Records) = Len(log0) + pipelineRuns
          /\ IsPrefix(log0, Records)
          /\ Records[Len(Records)].createdAt = current_time
          /\ Chronological(Records)
    /\ (InPipeline /\ historyFile.ok) =>
          Len(Records) = Len(log0) + pipelineRuns - (IF pc \in AfterSave THEN 0 ELSE 1)

C1_Witness ==
    /\ pc = "poll"
    /\ pipelineRuns = 2
    /\ Len(Records) = Len(log0) + 2

\* C2: a poll that detects a Released edge starts the pipeline if and only
\* if the time from the Pressed detection to this detection is below
\* SHORT_PRESS_TIME; no other poll starts it.
C2_ShortPressStartsPipeline ==
    [][PollStep =>
        ((pc' = "smile") <=>
            (/\ Edge(prev_button_state, button_state') = "Released"
             /\ now' - press_time_start < SHORT_PRESS_TIME))]_vars

C2_Witness ==
    /\ pc = "smile"
    /\ press_time_start > 0
    /\ press_time_end - press_time_start = SHORT_PRESS_TIME - 1

\* C3: with bounce confined to one debounce interval, at most one Pressed and
\* at most one Released edge is detected per physical press, and a poll whose
\* sample equals the stored level detects nothing.
C3_OneEdgePerPress ==
    /\ [](pressedEvents <= 1 /\ releasedEvents <= 1)
    /\ [][(PollStep /\ button_state' = prev_button_state) =>
            /\ pc' = "poll"
            /\ UNCHANGED <<pressedEvents, releasedEvents, press_time_start,
                           press_time_end, pipelineRuns>>]_vars

\* C4: a physical press that begins and ends while one pipeline run is
\* executing is never reported: no Pressed edge, no Released edge and no
\* pipeline run come from it, and back in Idle the log holds one record per
\* run and no more.
C4_PressDuringPipelineDropped ==
    (pressKind = "hidden") =>
        /\ pressedEvents = 0
        /\ releasedEvents = 0
        /\ runsSincePress = 0
        /\ (pc = "poll" => Len(Records) = Len(log0) + pipelineRuns)

C4_Witness ==
    /\ pressKind = "hidden"
    /\ pc = "poll"
    /\ now > current_time + PipelineTimeMax

\* C5: a failure of the captioning service never ends the process: the run
\* goes on, and once it has returned the record, the display stage and the
\* speech all carried the fallback string.
C5_CaptionFailureRecovered ==
    (captionFault # "none") =>
        /\ crashedAt # "analyse"
        /\ (pc = "poll" =>
              /\ Records[Len(Records)].caption = ErrorCaption
              /\ audio = ErrorCaption
              /\ Len(stages) = 10)

\* a failure inside the try of analyse_image (opening or captioning the image)
\* is recovered: the run returns with the fallback string logged and spoken
ImageFailureRecovered ==
    (captionFault = "image") =>
        /\ crashedAt # "analyse"
        /\ (pc = "poll" =>
              /\ Records[Len(Records)].caption = ErrorCaption
              /\ audio = ErrorCaption
              /\ Len(stages) = 10)

\* C6: the record stage turns a log [R1..Rk] into [R1..Rk, R], and an intact
\* log always extends the log last read back intact.
C6_AppendOnly ==
    /\ [][(pc = "saveDump" /\ pc' = "showCaption") =>
            /\ historyFile'.ok
            /\ JsonLoad(historyFile'.text) =
                 Append(persisted, NewRecord(current_time, caption, filename))]_vars
    /\ [][(historyFile'.ok) => IsPrefix(persisted, JsonLoad(historyFile'.text))]_vars
    /\ [](historyFile.ok => IsPrefix(log0, Records))

C6_Witness ==
    /\ historyFile.ok
    /\ Len(log0) = 1
    /\ Len(Records) = 3

\* every complete record of the log names a photo that is on disk
RecordsHaveImages == \A i \in 1..Len(Records) : Records[i].filename \in images

\* C7: in every state the log holds whole records only, each naming a photo
\* the camera has captured.
C7_NoPartialRecord ==
    /\ Len(historyFile.text) % 3 = 0
    /\ RecordsHaveImages

\* C8: a poll that detects a Released edge 0.5 s or more after the Pressed
\* detection changes the stored level and the release time and nothing else,
\* and leaves the machine polling.
C8_LongPressNoOp ==
    [][(/\ PollStep
        /\ Edge(prev_button_state, button_state') = "Released"
        /\ now' - press_time_start >= SHORT_PRESS_TIME) =>
            /\ pc' = "poll"
            /\ prev_button_state' = button_state'
            /\ press_time_end' = now'
            /\ UNCHANGED <<lcd, audio, speechFile, images, historyFile,
                           modelLoads, pipelineRuns, press_time_start>>]_vars

C8_Witness ==
    /\ pc = "poll"
    /\ press_time_start > 0
    /\ press_time_end = now
    /\ press_time_end - press_time_start = SHORT_PRESS_TIME
    /\ prev_button_state = HIGH

\* C9: the captioning model is loaded at most once in a process lifetime.
C9_ModelLoadedOnce == modelLoads <= 1

\* C10: after an interrupt the process runs the handler and nothing else:
\* the input line is released first, then "Exiting..." is shown, held for
\* five seconds and cleared, and the process ends.
C10_InterruptShutsDown ==
    /\ [](gpioReleased <=> pc \in {"exitShow", "exitHold", "exited"})
    /\ [](pc = "exitHold" => lcd = "Exiting..." /\ exitShownAt = now)
    /\ [](pc = "exited" => lcd = "" /\ now - exitShownAt >= ExitHold)
    /\ [][(pc \in ExitStages) =>
            /\ pc' \in ExitStages
            /\ UNCHANGED <<progVars, audio, speechFile, images, historyFile,
                           modelLoads, pipelineRuns, stages, pressedEvents,
                           releasedEvents>>]_vars
    /\ [][(pc \in {"poll"} \cup PipelineStages /\ pc' \in ExitStages) => pc' = "cleanup"]_vars
    /\ (pc = "cleanup" ~> pc = "exited")

C10_Witness ==
    /\ pc = "exited"
    /\ stages = <<"smile", "capture">>
    /\ gpioReleased


\* the stages of one pipeline run, in the order of main.py:202-213
StageOrder ==
    <<"smile", "capture", "shutter", "sayProcessing", "showProcessing",
      "caption", "save", "showCaption", "sayCaption", "clear">>

\* the number of stages completed when the thread stands at a pipeline position
StagesDoneAt(p) ==
    CASE p = "smile" -> 0
      [] p = "capture" -> 1
      [] p = "shutter" -> 2
      [] p \in {"ttsProcessing", "playProcessing"} -> 3
      [] p = "showProcessing" -> 4
      [] p = "analyse" -> 5
      [] p \in {"saveLoad", "saveOpen", "saveDump"} -> 6
      [] p = "showCaption" -> 7
      [] p \in {"ttsCaption", "playCaption"} -> 8
      [] p = "clear" -> 9

\* C11: the stages of a run are performed in the order smile, capture,
\* shutter, announce and show "Processing image...", caption, record, show
\* and announce the caption, clear; the record is in the log once the caption
\* is shown or spoken and not before the caption exists; a run that returns
\* has performed all ten; and no poll of the button happens inside a run.
C11_StageOrder ==
    /\ [](IsPrefix(stages, StageOrder))
    /\ [](InPipeline => Len(stages) = StagesDoneAt(pc))
    /\ []((pc = "poll" /\ pipelineRuns > 0) => stages = StageOrder)
    /\ []((InPipeline /\ pc \in AfterSave) =>
            /\ historyFile.ok
            /\ Records[Len(Records)] = NewRecord(current_time, caption, filename))
    /\ []((InPipeline /\ Len(stages) < 6 /\ historyFile.ok) =>
            \A i \in 1..Len(Records) : Records[i].createdAt # current_time)
    /\ [][InPipeline =>
            /\ ~PollStep
            /\ pressedEvents' <= pressedEvents
            /\ releasedEvents' <= releasedEvents
            /\ UNCHANGED <<button_state, press_time_start, press_time_end,
                           pipelineRuns>>]_vars

C11_Witness ==
    /\ pc = "poll"
    /\ pipelineRuns = 2
    /\ stages = StageOrder
    /\ lcd = ""


\* the stored level changes only at the end of a poll iteration, to the level
\* that iteration sampled, whether or not the iteration ran the pipeline
PrevAssignedOncePerPoll ==
    /\ [][(PollStep /\ pc' = "poll") => prev_button_state' = button_state']_vars
    /\ [][(pc = "clear" /\ pc' = "poll") => prev_button_state' = button_state]_vars
    /\ [][(prev_button_state' # prev_button_state) =>
            (PollStep \/ (pc = "clear" /\ pc' = "poll"))]_vars

\* C12: the stored previous level starts at the inactive level, HIGH under the
\* pull-up, and is afterwards assigned once per poll iteration, to the level
\* sampled in that iteration.
C12_PrevStartsInactive ==
    /\ [](pc = "startup" => prev_button_state = HIGH)
    /\ PrevAssignedOncePerPoll


\* the positions after capture_image has returned and before the record stage
\* has opened history.json for writing
CapturedNotWritten ==
    {"shutter", "ttsProcessing", "playProcessing", "showProcessing", "analyse",
     "saveLoad", "saveOpen"}

\* C13: an interrupt arriving after the capture and before the record is
\* written ends the run there: the photo is on disk, the log is the log of
\* before the press with no record of this press, and the stages not yet
\* performed are never performed.
C13_InterruptAfterCapture ==
    /\ [][(pc \in CapturedNotWritten /\ pc' \in ExitStages) =>
            /\ pc' = "cleanup"
            /\ filename \in images'
            /\ historyFile' = historyFile
            /\ stages' = stages
            /\ ~(\E i \in 1..Len(stages) : stages[i] \in {"save", "showCaption", "sayCaption"})
            /\ (historyFile.ok =>
                  /\ Len(JsonLoad(historyFile'.text)) = Len(log0) + pipelineRuns - 1
                  /\ \A i \in 1..Len(JsonLoad(historyFile'.text)) :
                        JsonLoad(historyFile'.text)[i].createdAt # current_time)]_vars
    /\ [][(pc \in ExitStages) =>
            UNCHANGED <<historyFile, images, stages, caption, audio, modelLoads>>]_vars

C13_Witness ==
    /\ pc = "exited"
    /\ stages = <<"smile", "capture", "shutter", "sayProcessing", "showProcessing">>
    /\ filename \in images
    /\ historyFile.ok
    /\ Len(log0) = 1
    /\ Records = log0


\* C14: a camera, display or audio fault during a run ends the process on
\* the spot: nothing is retried, no later stage runs, the handler does not
\* run, and history.json is what it was when the fault struck - the records
\* of before the press if the record stage had not run, those plus the one
\* whole record of this press if it had.
C14_HardwareFaultFatal ==
    /\ [][(pc \in HardwareStages /\ pc' \notin PipelineStages \cup {"poll", "cleanup"}) =>
            /\ pc' = "crashed"
            /\ crashedAt' = pc
            /\ UNCHANGED <<historyFile, images, stages, lcd, audio, gpioReleased>>]_vars
    /\ [][(pc = "crashed") => UNCHANGED vars]_vars
    /\ [](crashedAt \in HardwareStages =>
            /\ pc = "crashed"
            /\ ~gpioReleased
            /\ Len(stages) = StagesDoneAt(crashedAt)
            /\ Len(historyFile.text) % 3 = 0
            /\ IsPrefix(log0, Records)
            /\ Len(Records) = Len(log0) + pipelineRuns - (IF crashedAt \in AfterSave THEN 0 ELSE 1)
            /\ (crashedAt \in AfterSave =>
                  /\ historyFile.ok
                  /\ Records[Len(Records)] = NewRecord(current_time, caption, filename)))

C14_Witness ==
    /\ pc = "crashed"
    /\ crashedAt = "playCaption"
    /\ Len(log0) = 1
    /\ Len(Records) = 2


\* C15: when the record stage finds history.json unreadable the exception is
\* fatal: the program's only step is to stop there, the file is not written,
\* no record of the press exists although its photo does, and the caption is
\* neither shown nor spoken.
C15_LogReadFaultFatal ==
    /\ [][(pc = "saveLoad" /\ ~historyFile.ok /\ pc' # pc) =>
            /\ pc' \in {"crashed", "cleanup"}
            /\ (pc' = "crashed" => crashedAt' = "saveLoad")
            /\ UNCHANGED <<historyFile, images, lcd, audio, stages>>]_vars
    /\ [](crashedAt = "saveLoad" =>
            /\ pc = "crashed"
            /\ ~historyFile.ok
            /\ Records = <<>>
            /\ filename \in images
            /\ lcd = "Processing image..."
            /\ audio = "Processing image..."
            /\ stages = SubSeq(StageOrder, 1, 6)
            /\ ~gpioReleased)
    /\ [][(pc = "crashed") => UNCHANGED vars]_vars

C15_Witness ==
    /\ pc = "crashed"
    /\ crashedAt = "saveLoad"
    /\ caption = ErrorCaption


\* on the path where every call returns, speech.mp3 exists exactly between
\* the synthesis and the end of the playback of one announcement
SpeechFileRemovedOnReturn ==
    (pc \in {"startup", "poll"} \cup PipelineStages) =>
        (speechFile <=> pc \in {"playProcessing", "playCaption"})

\* C16: speech.mp3 exists only while a spoken announcement is in progress:
\* never while polling, never in another stage, never after the process has
\* ended, the interrupt path included.  Stated for the processes that no
\* uncaught device fault has killed, where the claim is unconditional.
C16_SpeechFileTransient ==
    (pc # "crashed") => (speechFile => pc \in {"playProcessing", "playCaption"})


\* C17: with every collaborator call returning, a run that has started always
\* comes back to polling with the display cleared; it comes back with the
\* stored level HIGH, so that the next press is detected as a Pressed edge,
\* and its release within SHORT_PRESS_TIME starts the pipeline again.
C17_ReturnsToIdle ==
    /\ InPipeline ~> (pc = "poll" /\ lcd = "")
    /\ [][(pc = "clear" /\ pc' # pc) =>
            (pc' = "poll" /\ lcd' = "" /\ prev_button_state' = HIGH)]_vars
    /\ [][(PollStep /\ pipelineRuns > 0 /\ prev_button_state = HIGH /\ button_state' = LOW) =>
            (press_time_start' = now' /\ pressedEvents' = pressedEvents + 1)]_vars
    /\ [][(/\ PollStep
           /\ pipelineRuns > 0
           /\ Edge(prev_button_state, button_state') = "Released"
           /\ now' - press_time_start < SHORT_PRESS_TIME) =>
            (pc' = "smile" /\ pipelineRuns' = pipelineRuns + 1)]_vars

C17_Witness ==
    /\ pc = "smile"
    /\ pipelineRuns = 2
    /\ lcd = ""
    /\ press_time_start > current_time - SHORT_PRESS_TIME


\* C18: a poll starts the pipeline only when a Pressed edge has been detected
\* since the last Released edge (the press stamp is later than the previous
\* release stamp); a Released edge detected while press_time_start is still 0,
\* as on the first poll after startup with the button up, starts nothing.
C18_RunNeedsPressedEdge ==
    /\ [][(PollStep /\ pc' = "smile") =>
            (press_time_start > press_time_end /\ press_time_start > 0)]_vars
    /\ [][(/\ PollStep
           /\ Edge(prev_button_state, button_state') = "Released"
           /\ press_time_start = 0) =>
            (pc' = "poll" /\ pipelineRuns' = pipelineRuns /\ stages' = stages)]_vars

C18_Witness ==
    /\ pc = "poll"
    /\ press_time_start = 0
    /\ press_time_end > 0
    /\ prev_button_state = HIGH
    /\ pipelineRuns = 0


\* the complete records of the log carry pairwise distinct filenames
DistinctFilenames ==
    \A i, j \in 1..Len(Records) :
        (i # j) => (Records[i].filename # Records[j].filename)

\* C19: no two records of the log carry the same filename, no capture writes
\* over a photo already on disk, and the release timestamp of a run is more
\* than one second later than that of the run before it.
C19_FilenamesUnique ==
    /\ []DistinctFilenames
    /\ [][(pc = "capture" /\ pc' = "shutter") =>
            (filename \notin images /\ images' = images \cup {filename})]_vars
    /\ [][(PollStep /\ pc' = "smile" /\ pipelineRuns > 0) =>
            (/\ current_time' - current_time > TicksPerSecond
             /\ filename' # filename
             /\ filename' \notin images)]_vars

C19_Witness ==
    /\ pipelineRuns = 2
    /\ historyFile.ok
    /\ Len(Records) >= 2
    /\ Records[Len(Records)].filename = filename
    /\ Records[Len(Records) - 1].createdAt >= SHORT_PRESS_TIME
    /\ {Records[Len(Records)].filename, Records[Len(Records) - 1].filename} \subseteq images


\* a press that began during a run and was still down when the run returned;
\* heldOverLong began before the camera warm-up, so it has been held for
\* more than SHORT_PRESS_TIME by the time the run returns
HeldOverKinds == {"heldOver", "heldOverLong"}

\* C20: a press that begins during a run and is still held when the run
\* returns finds the stored level HIGH; the poll that samples it detects a
\* Pressed edge and stamps press_time_start with its own time, later than the
\* run's return, and a Released edge detected less than SHORT_PRESS_TIME after
\* that stamp starts a new run, however long the button has been held.
C20_HeldOverPressRestamped ==
    /\ []((pc = "poll" /\ pressKind \in HeldOverKinds /\ pressedEvents = 0) =>
            prev_button_state = HIGH)
    /\ [][(PollStep /\ pressKind \in HeldOverKinds /\ phys = "down" /\ pressedEvents = 0) =>
            (/\ Edge(prev_button_state, button_state') = "Pressed"
             /\ press_time_start' = now'
             /\ press_time_start' >= current_time + CameraWarmup + DEBOUNCE_TIME
             /\ pressedEvents' = 1
             /\ pc' = "poll")]_vars
    /\ [][(/\ PollStep
           /\ pressKind \in HeldOverKinds
           /\ Edge(prev_button_state, button_state') = "Released"
           /\ now' - press_time_start < SHORT_PRESS_TIME) =>
            (pc' = "smile" /\ pipelineRuns' = pipelineRuns + 1)]_vars

C20_Witness ==
    /\ pressKind = "heldOverLong"
    /\ pc = "smile"
    /\ pipelineRuns = 2
    /\ runsSincePress = 1
    /\ pressedEvents = 1
    /\ press_time_start - press_time_end < SHORT_PRESS_TIME
    /\ current_time - press_time_start < SHORT_PRESS_TIME

====
